---- MODULE Spec2Model ----
(***************************************************************************)
(* A model of the two programs of the repository:                          *)
(*   Backend/   the order API: OTP authentication (routes/order.js:38-60), *)
(*              order creation and history (routes/order.js:13-26), the    *)
(*              admin routes (routes/admin.js) and their mounting          *)
(*              (app.js:19-21);                                            *)
(*   scrbbbb/   the upload demo (app.js:68-78, 124-146).                   *)
(*                                                                         *)
(* Encodings.  An ObjectId is a positive integer, handed out in increasing *)
(* order by nextId; in a request, 0 is an absent or empty id and -1 a      *)
(* string that is no ObjectId.  An absent or empty string field is "".     *)
(* Time is Date.now() in milliseconds.  A collection is the sequence of    *)
(* its documents in insertion order.  A response with status 0 is none:    *)
(* the handler's promise was rejected before it answered.                  *)
(***************************************************************************)
EXTENDS Integers, Sequences, FiniteSets, TLC

VARIABLES
    now,        \* Date.now()
    nextId,     \* the next ObjectId
    users,      \* the User collection (models/user.js)
    orders,     \* the Order collection (models/order.js)
    issued,     \* per mobile, what /send-otp last answered, and when
    res,        \* the last response sent
    dataFile,   \* scrbbbb: uploads/data.json
    pc,         \* scrbbbb: where each upload request stands
    reqs,       \* scrbbbb: each upload request, as multer leaves it
    replies     \* scrbbbb: what each upload request was answered

vars == <<now, nextId, users, orders, issued, res, dataFile, pc, reqs, replies>>

backendVars == <<now, nextId, users, orders, issued, res>>
uploadVars == <<dataFile, pc, reqs, replies>>

----
\* Bounds of the model.

\* The clock stops after this many ticks.
MaxClock == 6
\* The Order collection holds at most this many documents.
MaxOrders == 2
\* The upload demo serves this many requests.
MaxUploads == 2

\* One tick of the clock: a minute, in milliseconds.
TickMs == 60 * 1000

Mobiles == {"9999999999", "8888888888"}

----
\* Helpers on sequences.

Range(s) == {s[i] : i \in 1..Len(s)}

RECURSIVE Reverse(_)
Reverse(s) == IF s = <<>> THEN <<>> ELSE Append(Reverse(Tail(s)), Head(s))

\* The document a query found nothing for (findOne, findByIdAndUpdate: null).
NoDoc == [_id |-> 0]

NoRes == [op |-> "none"]

----
\* The OTP generator (otp-generator), as routes/order.js:40 calls it.

\* The library's four character classes, one character of each.
digits == {"7"}
lowerCaseAlphabets == {"k"}
upperCaseAlphabets == {"K"}
specialChars == {"#"}

\* The options of the call: upperCaseAlphabets and specialChars as it passes
\* them, digits and lowerCaseAlphabets at the library's default, true.
otpOptions == [digits |-> TRUE, lowerCaseAlphabets |-> TRUE,
               upperCaseAlphabets |-> FALSE, specialChars |-> FALSE]

allowsChars(options) ==
    (IF options.digits THEN digits ELSE {})
    \cup (IF options.lowerCaseAlphabets THEN lowerCaseAlphabets ELSE {})
    \cup (IF options.upperCaseAlphabets THEN upperCaseAlphabets ELSE {})
    \cup (IF options.specialChars THEN specialChars ELSE {})

\* Every string generate(length, options) can return.
generate(length, options) == [1..length -> allowsChars(options)]

OtpLength == 4

\* The draws of the random source that the model follows: all digits, mixed,
\* all letters, and one with an upper-case letter that the options rule out.
OtpDraws ==
    { <<"7", "7", "7", "7">>, <<"7", "k", "7", "k">>,
      <<"k", "k", "k", "k">>, <<"7", "K", "7", "7">> }

----
\* Backend: the auth routes (routes/order.js:38-60).

findOne(mobile) ==
    LET hits == SelectSeq(users, LAMBDA u : u.mobile = mobile)
    IN IF hits = <<>> THEN NoDoc ELSE Head(hits)

\* findOneAndUpdate({mobile}, {otp, otpExpiry}, {upsert: true, new: true})
findOneAndUpdate(mobile, otp, expiry) ==
    IF findOne(mobile) # NoDoc
    THEN [i \in 1..Len(users) |->
            IF users[i]._id = findOne(mobile)._id
            THEN [users[i] EXCEPT !.otp = otp, !.otpExpiry = expiry]
            ELSE users[i]]
    ELSE Append(users, [_id |-> nextId, mobile |-> mobile,
                        otp |-> otp, otpExpiry |-> expiry])

\* The expiry with seconds taken for milliseconds.
otpExpiryShort(t) == t + 5 * 60

\* routes/order.js:41

otpExpiry(t) == t + 5 * 60 * 1000

SendOtp(mobile) ==
    \E otp \in generate(OtpLength, otpOptions) \cap OtpDraws :
        /\ users' = findOneAndUpdate(mobile, otp, otpExpiry(now))
        /\ nextId' = IF findOne(mobile) # NoDoc THEN nextId ELSE nextId + 1
        /\ issued' = [issued EXCEPT ![mobile] = [otp |-> otp, at |-> now]]
        /\ res' = [op |-> "send-otp", status |-> 200, mobile |-> mobile,
                   message |-> "OTP sent", otp |-> otp]
        /\ UNCHANGED <<now, orders, uploadVars>>

\* The line-56 test with >= for >.
otpValidAtExpiry(user, otp, t) ==
    user # NoDoc /\ user.otp = otp /\ user.otpExpiry >= t

\* routes/order.js:56
otpValid(user, otp, t) ==
    user # NoDoc /\ user.otp = otp /\ user.otpExpiry > t

VerifyOtp(mobile, otp) ==
    /\ res' = IF otpValid(findOne(mobile), otp, now)
              THEN [op |-> "verify-otp", status |-> 200, mobile |-> mobile,
                    otp |-> otp, at |-> now,
                    success |-> TRUE, userId |-> findOne(mobile)._id]
              ELSE [op |-> "verify-otp", status |-> 400, mobile |-> mobile,
                    otp |-> otp, at |-> now,
                    error |-> "Invalid or expired OTP"]
    /\ UNCHANGED <<now, nextId, users, orders, issued, uploadVars>>

\* Time passes.
Tick ==
    /\ now < MaxClock * TickMs
    /\ now' = now + TickMs
    /\ UNCHANGED <<nextId, users, orders, issued, res, uploadVars>>

\* The codes a client may try: those on record, and two it made up.
OtpInputs ==
    {u.otp : u \in Range(users)}
    \cup {<<"7", "7", "7", "7">>, <<"7", "7", "7">>}

----
\* Backend: the order routes (routes/order.js:6-26) and the Order model.

\* upload.array('photos', 5): the most files one request may carry.
maxCount == 5

\* diskStorage (routes/order.js:6-9): where a file is stored, f.path.
storedPath(t, originalname) == <<"uploads/", t, "-", originalname>>

\* String -> Number, as the schema casts weight; -1 where the cast fails.
castNumber(w) == IF w = "5" THEN 5 ELSE -1

\* The line-15 test on the five body fields: '!x' of an absent or empty field.
fieldMissing(body) ==
    \/ body.userId = 0
    \/ body.category = ""
    \/ body.weight = ""
    \/ body.date = ""
    \/ body.time = ""

\* The document that create() validates and inserts (models/order.js:2-10).
newOrderDoc(body, photos) ==
    [_id |-> nextId, customer |-> body.userId, category |-> body.category,
     weight |-> castNumber(body.weight), photos |-> photos,
     date |-> body.date, time |-> body.time, status |-> "Pending"]

\* The casts of the schema that make create() reject.
castFails(body) == body.userId = -1 \/ castNumber(body.weight) = -1

\* POST /new.  multipart: the request is multipart/form-data, so multer parses
\* it and sets req.files; otherwise req.files stays undefined.  files: the
\* original names of the files sent in the field 'photos'.
NewOrder(multipart, body, files) ==
    LET photos == [i \in 1..Len(files) |-> storedPath(now, files[i])]
        answer ==
            IF multipart /\ Len(files) > maxCount
            THEN [op |-> "new", status |-> 500,
                  error |-> "MulterError: Unexpected field"]
            ELSE IF fieldMissing(body)
            THEN [op |-> "new", status |-> 400, error |-> "All fields required"]
            ELSE IF ~multipart
            THEN [op |-> "new", status |-> 0,
                  error |-> "TypeError: req.files is undefined"]
            ELSE IF Len(files) = 0
            THEN [op |-> "new", status |-> 400, error |-> "All fields required"]
            ELSE IF castFails(body)
            THEN [op |-> "new", status |-> 0, error |-> "ValidationError"]
            ELSE [op |-> "new", status |-> 200, success |-> TRUE,
                  order |-> newOrderDoc(body, photos)]
    IN /\ answer.status = 200 => Len(orders) < MaxOrders
       /\ res' = answer
       /\ orders' = IF answer.status = 200
                    THEN Append(orders, answer.order) ELSE orders
       /\ nextId' = IF answer.status = 200 THEN nextId + 1 ELSE nextId
       /\ UNCHANGED <<now, users, issued, uploadVars>>

\* s sorted by _id, the greatest first.
RECURSIVE sortDescending(_)
sortDescending(s) ==
    IF s = <<>> THEN <<>>
    ELSE LET i == CHOOSE i \in 1..Len(s) :
                      \A j \in 1..Len(s) : s[i]._id >= s[j]._id
         IN <<s[i]>> \o sortDescending(SubSeq(s, 1, i - 1) \o SubSeq(s, i + 1, Len(s)))

\* The query without its sort.
findByCustomerUnsorted(userId) ==
    SelectSeq(orders, LAMBDA o : o.customer = userId)

\* find({ customer: userId }).sort('-_id')
findByCustomer(userId) ==
    sortDescending(SelectSeq(orders, LAMBDA o : o.customer = userId))

\* GET /my-orders/:userId
MyOrders(userId) ==
    /\ res' = IF userId = -1
              THEN [op |-> "my-orders", status |-> 0, userId |-> userId,
                    error |-> "CastError"]
              ELSE [op |-> "my-orders", status |-> 200, userId |-> userId,
                    orders |-> findByCustomer(userId)]
    /\ UNCHANGED <<now, nextId, users, orders, issued, uploadVars>>

----
\* Backend: the admin routes (routes/admin.js).

findUserById(id) ==
    LET hits == SelectSeq(users, LAMBDA u : u._id = id)
    IN IF hits = <<>> THEN NoDoc ELSE Head(hits)

\* populate('customer', 'mobile'): the owner's _id and mobile, or null.
populate(o) ==
    [o EXCEPT !.customer =
        IF findUserById(o.customer) = NoDoc THEN NoDoc
        ELSE [_id |-> o.customer, mobile |-> findUserById(o.customer).mobile]]

\* GET ./orders
AdminOrders ==
    /\ res' = [op |-> "orders", status |-> 200,
               orders |-> [i \in 1..Len(orders) |-> populate(orders[i])]]
    /\ UNCHANGED <<now, nextId, users, orders, issued, uploadVars>>

findOrderById(id) ==
    LET hits == SelectSeq(orders, LAMBDA o : o._id = id)
    IN IF hits = <<>> THEN NoDoc ELSE Head(hits)

\* findByIdAndUpdate(orderId, { status }, { new: true }): the collection after.
findByIdAndUpdate(orderId, status) ==
    [i \in 1..Len(orders) |->
        IF orders[i]._id = orderId
        THEN [orders[i] EXCEPT !.status = status] ELSE orders[i]]

\* POST ./order/:orderId/status
AdminStatus(orderId, status) ==
    /\ orders' = IF orderId = -1 THEN orders ELSE findByIdAndUpdate(orderId, status)
    /\ res' = IF orderId = -1
              THEN [op |-> "status", status |-> 0, orderId |-> orderId,
                    sent |-> status, error |-> "CastError"]
              ELSE [op |-> "status", status |-> 200, orderId |-> orderId,
                    sent |-> status, success |-> TRUE,
                    order |-> IF findOrderById(orderId) = NoDoc THEN NoDoc
                              ELSE [findOrderById(orderId) EXCEPT !.status = status]]
    /\ UNCHANGED <<now, nextId, users, issued, uploadVars>>

----
\* The requests the model sends.

\* A well-formed ObjectId that no document has.
ghostId == 9

UserIdInputs == {0, -1, 1, 2, ghostId}

goodBody(userId) ==
    [userId |-> userId, category |-> "clothes", weight |-> "5",
     date |-> "2025-01-01", time |-> "10:00"]

\* Every id with the other fields sent; every choice of fields left out; a
\* weight that is no number.
Bodies ==
    {goodBody(u) : u \in UserIdInputs}
    \cup [userId : {0, 1}, category : {"", "clothes"}, weight : {"", "5"},
          date : {"", "2025-01-01"}, time : {"", "10:00"}]
    \cup {[goodBody(1) EXCEPT !.weight = "heavy"]}

FileLists ==
    { <<>>, <<"a.jpg">>, <<"a.jpg", "b.jpg">>,
      [i \in 1..(maxCount + 1) |-> "a.jpg"] }

\* POST /new requests: every body with one file, as multipart; and two bodies
\* with every list of files, and as a request that is not multipart.
NewOrderRequests ==
    {[multipart |-> TRUE, body |-> b, files |-> <<"a.jpg">>] : b \in Bodies}
    \cup [multipart : {TRUE}, files : FileLists,
          body : {goodBody(1), goodBody(2), [goodBody(1) EXCEPT !.date = ""]}]
    \cup [multipart : {FALSE}, files : {<<>>},
          body : {goodBody(1), [goodBody(1) EXCEPT !.date = ""]}]

Statuses == {"Pending", "Scheduled", "Completed", "Rejected"}

\* The status a request sends: any string.
StatusInputs == {"Scheduled", "Bogus"}

OrderIdInputs == {-1} \cup 1..(MaxOrders + 2)

a7k == <<"7", "k", "7", "k">>

\* The User collection after one, or two, mobiles have asked for a code.
RegisteredUsers ==
    { <<[_id |-> 1, mobile |-> "9999999999", otp |-> a7k, otpExpiry |-> otpExpiry(0)]>>,
      <<[_id |-> 1, mobile |-> "9999999999", otp |-> a7k, otpExpiry |-> otpExpiry(0)],
        [_id |-> 2, mobile |-> "8888888888", otp |-> a7k, otpExpiry |-> otpExpiry(0)]>> }

----
\* Backend: the HTTP entry point (app.js:9-23) and Express's routing.
\* A path is the sequence of its segments and of the "/" and "." between
\* them: "/api/admin/orders" is <<"/", "api", "/", "admin", "/", "orders">>.

\* The path a router was given, matched as Express matches it: the whole of
\* the url, segment by segment, a ':name' standing for one segment, with a
\* trailing "/" allowed.
matchesBody(pattern, url) ==
    /\ Len(url) = Len(pattern)
    /\ \A i \in 1..Len(pattern) :
          \/ pattern[i] = url[i]
          \/ pattern[i] \in {":userId", ":orderId"} /\ url[i] \notin {"/", "."}

matches(pattern, url) ==
    \/ matchesBody(pattern, url)
    \/ /\ Len(url) = Len(pattern) + 1
       /\ url[Len(url)] = "/"
       /\ matchesBody(pattern, SubSeq(url, 1, Len(pattern)))

\* app.use(mount, router): the url starts with the mount path, at a segment
\* boundary.
mounted(mount, url) ==
    /\ Len(url) >= Len(mount)
    /\ SubSeq(url, 1, Len(mount)) = mount
    /\ Len(url) > Len(mount) => url[Len(mount) + 1] = "/"

\* The url the router sees: the mount path cut off, "/" if nothing is left.
stripped(mount, url) ==
    IF Len(url) = Len(mount) THEN <<"/">>
    ELSE SubSeq(url, Len(mount) + 1, Len(url))

\* The routes of the three routers, in the order they are registered.
authRoutes ==
    << [method |-> "POST", path |-> <<"/", "send-otp">>, handler |-> "send-otp"],
       [method |-> "POST", path |-> <<"/", "verify-otp">>, handler |-> "verify-otp"] >>

orderRoutes ==
    << [method |-> "POST", path |-> <<"/", "new">>, handler |-> "new"],
       [method |-> "GET", path |-> <<"/", "my-orders", "/", ":userId">>,
        handler |-> "my-orders"] >>

adminRoutes ==
    << [method |-> "GET", path |-> <<".", "/", "orders">>, handler |-> "orders"],
       [method |-> "POST",
        path |-> <<".", "/", "order", "/", ":orderId", "/", "status">>,
        handler |-> "status"] >>

\* app.use(...) of app.js:19-21.
mounts ==
    << [mount |-> <<"/", "api", "/", "auth">>, router |-> authRoutes],
       [mount |-> <<"/", "api", "/", "order">>, router |-> orderRoutes],
       [mount |-> <<"/", "api", "/", "admin">>, router |-> adminRoutes] >>

\* The routes of all routers that a request reaches: [handler, url], url the
\* path inside the router.
routesFor(method, url) ==
    { [handler |-> mounts[m].router[k].handler, url |-> stripped(mounts[m].mount, url)] :
        <<m, k>> \in
          { mk \in (1..Len(mounts)) \X (1..2) :
              /\ mounted(mounts[mk[1]].mount, url)
              /\ mounts[mk[1]].router[mk[2]].method = method
              /\ matches(mounts[mk[1]].router[mk[2]].path,
                         stripped(mounts[mk[1]].mount, url)) } }

\* A path segment as an ObjectId: -1 where the cast fails.
castObjectId(segment) ==
    IF segment = "1" THEN 1 ELSE IF segment = "2" THEN 2
    ELSE IF segment = "3" THEN 3 ELSE IF segment = "9" THEN ghostId ELSE -1

\* One request through the application.  No two routes of the application match
\* the same request, so the one that matches, if any, answers it; Express
\* answers 404 itself when none does.
Http(r) ==
    LET found == routesFor(r.method, r.path)
        route == CHOOSE x \in found : TRUE
    IN IF found = {}
       THEN /\ res' = [op |-> "not-found", status |-> 404]
            /\ UNCHANGED <<now, nextId, users, orders, issued, uploadVars>>
       ELSE IF route.handler = "send-otp" THEN SendOtp(r.body.mobile)
       ELSE IF route.handler = "verify-otp" THEN VerifyOtp(r.body.mobile, r.body.otp)
       ELSE IF route.handler = "new" THEN NewOrder(r.multipart, r.body, r.files)
       ELSE IF route.handler = "my-orders" THEN MyOrders(castObjectId(route.url[4]))
       ELSE IF route.handler = "orders" THEN AdminOrders
       ELSE AdminStatus(castObjectId(route.url[4]), r.body.status)

\* The requests the model sends over HTTP.
api(rest) == <<"/", "api", "/">> \o rest

IdSegments == {"1", "2", "3", "9", "x"}

HttpRequests ==
    {[method |-> "POST", path |-> api(<<"auth", "/", "send-otp">>), multipart |-> FALSE,
      body |-> [mobile |-> m], files |-> <<>>] : m \in Mobiles}
    \cup {[method |-> "POST", path |-> api(<<"auth", "/", "verify-otp">>),
           multipart |-> FALSE, body |-> [mobile |-> m, otp |-> a7k], files |-> <<>>]
          : m \in Mobiles}
    \cup {[method |-> "POST", path |-> api(<<"order", "/", "new">>), multipart |-> TRUE,
           body |-> b, files |-> <<"a.jpg">>]
          : b \in {goodBody(1), goodBody(ghostId), [goodBody(1) EXCEPT !.date = ""]}}
    \cup {[method |-> "GET", path |-> api(<<"order", "/", "my-orders", "/", i>>),
           multipart |-> FALSE, body |-> [none |-> TRUE], files |-> <<>>]
          : i \in IdSegments}
    \cup {[method |-> "GET", path |-> api(p), multipart |-> FALSE,
           body |-> [none |-> TRUE], files |-> <<>>]
          : p \in { <<"admin", "/", "orders">>, <<"admin", "/", "orders", "/">>,
                    <<"admin", "/", ".", "/", "orders">>, <<"admin", ".", "/", "orders">>,
                    <<"order", "/", "new">>, <<"nothing">> }}
    \cup {[method |-> "POST", path |-> api(<<"admin", "/", "order", "/", i, "/", "status">>),
           multipart |-> FALSE, body |-> [status |-> st], files |-> <<>>]
          : i \in IdSegments, st \in StatusInputs}
    \cup {[method |-> "POST",
           path |-> api(<<"admin", "/", ".", "/", "order", "/", i, "/", "status">>),
           multipart |-> FALSE, body |-> [status |-> st], files |-> <<>>]
          : i \in IdSegments, st \in {"Scheduled"}}

----
\* scrbbbb: the upload demo (scrbbbb/app.js).

\* uploads/data.json before the first upload: no such file.
NoFile == [text |-> "none"]

NoRequest == [hasFile |-> FALSE]

NoReply == [status |-> 0]

\* readData: the array in the file, [] when reading or parsing it throws.
readData ==
    IF dataFile = NoFile \/ dataFile.text # "json" THEN <<>> ELSE dataFile.value

\* writeData(arr): the file holds the JSON text of arr.
writeData(arr) == [text |-> "json", value |-> arr]

\* The filename function of the storage (app.js:51-55); in the original name
\* every character outside [a-zA-Z0-9.-] becomes "_".
sanitized(originalname) ==
    IF originalname = "my cat.png" THEN "my_cat.png" ELSE originalname

\* upload.single('image'): multer parses the form, stores the file if there is
\* one, and hands the request to the handler.
Receive(r, form) ==
    /\ pc[r] = "idle"
    /\ pc' = [pc EXCEPT ![r] = "parsed"]
    /\ reqs' = [reqs EXCEPT ![r] =
                  IF form.hasFile
                  THEN [hasFile |-> TRUE, name |-> form.name, email |-> form.email,
                        description |-> form.description,
                        filename |-> <<now, "-", sanitized(form.originalname)>>,
                        originalname |-> form.originalname,
                        mimetype |-> "image/png", size |-> form.size]
                  ELSE [hasFile |-> FALSE, name |-> form.name, email |-> form.email,
                        description |-> form.description]]
    /\ UNCHANGED <<backendVars, dataFile, replies>>

\* The record of an upload (app.js:129-139).
newItem(r) ==
    [id |-> now, name |-> reqs[r].name, email |-> reqs[r].email,
     description |-> reqs[r].description, filename |-> reqs[r].filename,
     originalName |-> reqs[r].originalname, mimetype |-> reqs[r].mimetype,
     size |-> reqs[r].size, uploadedAt |-> <<"ISO", now>>]

\* The handler, were readData an asynchronous read that it awaits: other
\* handlers run between the read and the write.
uploadAwaiting(r) ==
    \/ /\ pc[r] = "parsed"
       /\ pc' = [pc EXCEPT ![r] = "read"]
       /\ reqs' = [reqs EXCEPT ![r] =
                     [f \in DOMAIN reqs[r] \cup {"arr"} |->
                        IF f # "arr" THEN reqs[r][f]
                        ELSE IF reqs[r].hasFile THEN <<newItem(r)>> \o readData
                        ELSE <<>>]]
       /\ UNCHANGED <<backendVars, dataFile, replies>>
    \/ /\ pc[r] = "read"
       /\ pc' = [pc EXCEPT ![r] = "done"]
       /\ dataFile' = IF reqs[r].hasFile THEN writeData(reqs[r].arr) ELSE dataFile
       /\ replies' = [replies EXCEPT ![r] =
                        IF reqs[r].hasFile
                        THEN [status |-> 200, text |-> "Upload successful"]
                        ELSE [status |-> 400, text |-> "No file uploaded."]]
       /\ UNCHANGED <<backendVars, reqs>>

\* POST /upload, the handler (app.js:124-146).  Every call in it is
\* synchronous, so it runs from its first line to its answer in one turn of
\* the event loop.
upload(r) ==
    /\ pc[r] = "parsed"
    /\ pc' = [pc EXCEPT ![r] = "done"]
    /\ dataFile' = IF reqs[r].hasFile
                   THEN writeData(<<newItem(r)>> \o readData) ELSE dataFile
    /\ replies' = [replies EXCEPT ![r] =
                     IF reqs[r].hasFile
                     THEN [status |-> 200, text |-> "Upload successful"]
                     ELSE [status |-> 400, text |-> "No file uploaded."]]
    /\ UNCHANGED <<backendVars, reqs>>

\* The forms the model posts.
Forms ==
    { [hasFile |-> FALSE, name |-> "ann", email |-> "ann@example.com",
       description |-> "", originalname |-> "", size |-> 0],
      [hasFile |-> TRUE, name |-> "ann", email |-> "ann@example.com",
       description |-> "a cat", originalname |-> "cat.png", size |-> 2048],
      [hasFile |-> TRUE, name |-> "", email |-> "", description |-> "",
       originalname |-> "my cat.png", size |-> 1024] }

Init ==
    /\ now = 0
    /\ nextId = 1
    /\ users = <<>>
    /\ orders = <<>>
    /\ issued = [m \in Mobiles |-> [otp |-> <<>>, at |-> -1]]
    /\ res = NoRes
    /\ dataFile = NoFile
    /\ pc = [r \in 1..MaxUploads |-> "idle"]
    /\ reqs = [r \in 1..MaxUploads |-> NoRequest]
    /\ replies = [r \in 1..MaxUploads |-> NoReply]

\* The order API with one or two users registered.
InitOrders ==
    /\ now = 0
    /\ users \in RegisteredUsers
    /\ nextId = Len(users) + 1
    /\ orders = <<>>
    /\ issued = [m \in Mobiles |->
                    IF findOne(m) = NoDoc THEN [otp |-> <<>>, at |-> -1]
                    ELSE [otp |-> a7k, at |-> 0]]
    /\ res = NoRes
    /\ dataFile = NoFile
    /\ pc = [r \in 1..MaxUploads |-> "idle"]
    /\ reqs = [r \in 1..MaxUploads |-> NoRequest]
    /\ replies = [r \in 1..MaxUploads |-> NoReply]

Next ==
    \/ \E r \in NewOrderRequests : NewOrder(r.multipart, r.body, r.files)
    \/ \E u \in UserIdInputs \ {0} : MyOrders(u)
    \/ AdminOrders
    \/ \E o \in OrderIdInputs, s \in StatusInputs : AdminStatus(o, s)

Spec == InitOrders /\ [][Next]_vars

NextHttp == \E r \in HttpRequests : Http(r)

SpecHttp == Init /\ [][NextHttp]_vars

NextUpload ==
    \/ \E r \in 1..MaxUploads, form \in Forms : Receive(r, form)
    \/ \E r \in 1..MaxUploads : upload(r)
    \/ Tick

SpecUpload == Init /\ [][NextUpload]_vars

\* Every request that arrived is parsed and handled in the end.
SpecUploadFair == SpecUpload /\ WF_vars(NextUpload)

NextAuth ==
    \/ \E m \in Mobiles : SendOtp(m)
    \/ \E m \in Mobiles, c \in OtpInputs : VerifyOtp(m, c)
    \/ Tick

SpecAuth == Init /\ [][NextAuth]_vars

----
\* The claims about the auth routes, checked under SpecAuth.

FiveMinutes == 5 * 60 * 1000

DecimalDigits == {"0", "1", "2", "3", "4", "5", "6", "7", "8", "9"}

\* The User documents stored for the mobile of the last response.
usersOfRes == {u \in Range(users) : u.mobile = res.mobile}

\* C1: a verify-otp that presents the code the last send-otp for that mobile
\* answered, less than five minutes after that send-otp read the clock,
\* succeeds and returns the _id of the one User stored for the mobile.
C1_VerifyWithinFiveMinutes ==
    ( /\ res.op = "verify-otp"
      /\ issued[res.mobile].at >= 0
      /\ res.otp = issued[res.mobile].otp
      /\ res.at - issued[res.mobile].at < FiveMinutes )
    => /\ res.status = 200
       /\ res.success
       /\ usersOfRes # {}
       /\ \A u \in usersOfRes : u._id = res.userId

\* C1's case: the second mobile verifies its code four minutes after the send.
C1_Witness ==
    /\ res.op = "verify-otp"
    /\ res.status = 200
    /\ Len(users) = 2
    /\ res.userId = users[2]._id
    /\ res.at = issued[res.mobile].at + 4 * TickMs

\* C2: verify-otp answers 400 'Invalid or expired OTP' when no User is stored
\* for the mobile, when the code is not the last one issued for it, and when
\* the clock is not strictly before the stored expiry.
C2_VerifyFails ==
    ( /\ res.op = "verify-otp"
      /\ \/ usersOfRes = {}
         \/ res.otp # issued[res.mobile].otp
         \/ \E u \in usersOfRes : ~(res.at < u.otpExpiry) )
    => /\ res.status = 400
       /\ res.error = "Invalid or expired OTP"

\* C2's case: the right code, presented at the very instant of the expiry.
C2_Witness ==
    /\ res.op = "verify-otp"
    /\ res.status = 400
    /\ res.otp = issued[res.mobile].otp
    /\ \E u \in usersOfRes : res.at = u.otpExpiry /\ u.otp = res.otp

\* C3: every code that send-otp stores or returns is four decimal digits.
C3_OtpIsFourDigits ==
    /\ \A u \in Range(users) :
          Len(u.otp) = 4 /\ \A i \in 1..Len(u.otp) : u.otp[i] \in DecimalDigits
    /\ res.op = "send-otp" =>
          Len(res.otp) = 4 /\ \A i \in 1..Len(res.otp) : res.otp[i] \in DecimalDigits

----
\* The claims about the order and admin operations, checked under Spec.

ordersOf(userId) == SelectSeq(orders, LAMBDA o : o.customer = userId)

\* C4: the status of every stored Order is one of the four named ones.
C4_StatusEnumerated == \A o \in Range(orders) : o.status \in Statuses

\* What C5 calls an invalid request, among those that the upload layer hands
\* to createOrder: a field absent, or no file attached.
invalidOrderRequest(r) ==
    /\ Len(r.files) <= 5
    /\ \/ r.body.userId = 0
       \/ r.body.category = ""
       \/ r.body.weight = ""
       \/ r.body.date = ""
       \/ r.body.time = ""
       \/ Len(r.files) = 0

\* C5: POST /new with a field absent or with no file answers 400 'All fields
\* required' and leaves the Order collection as it was.
C5_InvalidOrderRejected ==
    [][\A r \in NewOrderRequests :
          (NewOrder(r.multipart, r.body, r.files) /\ invalidOrderRequest(r))
          => /\ res'.status = 400
             /\ res'.error = "All fields required"
             /\ orders' = orders]_vars

\* C6: my-orders returns exactly the user's Orders, the latest inserted first.
C6_MyOrdersNewestFirst ==
    (res.op = "my-orders" /\ res.status = 200)
    => res.orders = Reverse(ordersOf(res.userId))

\* C6's case: the user has two orders and the one just created comes first.
C6_Witness ==
    /\ res.op = "my-orders"
    /\ res.status = 200
    /\ Len(orders) = 2
    /\ Len(res.orders) = 2
    /\ res.orders[1] = orders[2]

\* C8: a status update whose orderId matches no stored Order does not answer
\* success, and changes no Order.
C8_UnknownOrderNotFound ==
    [][\A id \in OrderIdInputs, st \in StatusInputs :
          (AdminStatus(id, st) /\ \A o \in Range(orders) : o._id # id)
          => /\ ~(res'.status = 200 /\ res'.success)
             /\ orders' = orders]_vars

\* C10: the customer of every stored Order is the _id of a stored User.
C10_CustomerExists ==
    \A o \in Range(orders) : \E u \in Range(users) : u._id = o.customer
----
\* The claim about the HTTP surface of the admin routes, checked under SpecHttp.

statusPath(i) == api(<<"admin", "/", "order", "/", i, "/", "status">>)

\* C7: POST /api/admin/order/:orderId/status with status s for a stored Order
\* sets that Order's status to s and changes nothing else, and
\* GET /api/admin/orders then answers every Order as stored, its customer
\* expanded to the owner's _id and mobile.
C7_StatusThenList ==
    [][\A r \in HttpRequests : Http(r) =>
         /\ \A i \in IdSegments :
               ( /\ r.method = "POST"
                 /\ r.path = statusPath(i)
                 /\ \E o \in Range(orders) : o._id = castObjectId(i) )
               => /\ res'.status = 200
                  /\ Len(orders') = Len(orders)
                  /\ \A k \in 1..Len(orders) :
                        orders'[k] = IF orders[k]._id = castObjectId(i)
                                     THEN [orders[k] EXCEPT !.status = r.body.status]
                                     ELSE orders[k]
         /\ (r.method = "GET" /\ r.path = api(<<"admin", "/", "orders">>))
               => /\ res'.status = 200
                  /\ Len(res'.orders) = Len(orders)
                  /\ \A k \in 1..Len(orders) :
                        /\ res'.orders[k].status = orders[k].status
                        /\ \E u \in Range(users) :
                              /\ u._id = orders[k].customer
                              /\ res'.orders[k].customer.mobile = u.mobile
      ]_vars

----
\* The claim about the upload demo, checked under SpecUpload.

answeredSuccessful == {r \in 1..MaxUploads : replies[r].status = 200}

\* Two uploads were answered 'Upload successful' and the file holds the
\* record of only one of them.
RecordDropped ==
    /\ Cardinality(answeredSuccessful) = 2
    /\ Len(readData) = 1

====
